---- MODULE Spec2Model ----
(***************************************************************************)
(* camera_node: the backend coordinator (src/backend/camera_client.py,     *)
(* src/backend/main.py) fanning a capture request out to the camera nodes  *)
(* (src/camera_node.py) and collecting one chunked transfer per node.      *)
(*                                                                         *)
(* The client is one asyncio event loop: a coroutine runs atomically from  *)
(* one suspending await to the next, so every action below is one such     *)
(* stretch of capture_all / capture_from_node, or one event emitted by a   *)
(* camera node and enqueued by the client's socket.io handler.  Time is    *)
(* abstracted: a wait_for() may time out whenever the queue it waits on is *)
(* empty.                                                                  *)
(***************************************************************************)
EXTENDS Integers, Sequences, FiniteSets, TLC

\* ---------------------------------------------------------------- bounds
\* Number of configured endpoints in the general specification.
NumNodes == 2
\* Number of capture_all invocations (POST /api/capture) in a behaviour.
MaxCalls == 2
\* Largest file size, in bytes, a camera node declares in image_metadata.
MaxSize == 3

\* Seconds of wall-clock time that pass in a behaviour that counts them.
MaxClock == 2
\* The largest camera dimension (width, height) of a processing call.
MaxDim == 4
\* The most files in a directory (the capture directory of a node, the image
\* directory of the backend), and the largest size of one.
MaxFiles == 3
MaxFileSize == 2
\* The image_complete events of one node a streaming client's history
\* records.
MaxRounds == 2
\* The preview subprocesses started and the clients connected to a camera
\* node in a behaviour.
MaxPreviews == 3
MaxClients == 2

\* ------------------------------------------------------ program constants
\* camera_node.py CHUNK_SIZE (64 * 1024), scaled to the model's byte sizes.
CHUNK_SIZE == 2
\* main.py configures four nodes, node_1 .. node_4.
ConfiguredNodes == 4
\* np.frombuffer(data, dtype=np.uint8): the width of the packed bytes.
UINT8_BITS == 8
\* The mask 0x3FF of the unpacking.
MASK == 1023
\* np.zeros(..., dtype=np.uint16): the width of the unpacked samples.
UINT16_BITS == 16
\* camera_node.py defaults and supported values of a capture request.
DEFAULT_RESOLUTION == "2304x1296"
DEFAULT_FORMAT == "jpg"
SUPPORTED_RESOLUTIONS == {"2304x1296", "1536x864", "1152x648"}
SUPPORTED_FORMATS == {"jpg", "dng"}
\* camera_client.py wait_for(..., timeout=10), in ticks of the model's timers.
WAIT_TIMEOUT == 2
\* camera_node.py STORAGE_LIMIT_MB (1000), scaled to the model's file sizes.
STORAGE_LIMIT_MB == 2

VARIABLES
    nodes,            \* CameraClient.nodes: the configured endpoints, in order
    sio_clients,      \* CameraClient.sio_clients: node ids in insertion order
    connected,        \* per node: the socket.io client is connected
    metadata_queues,  \* per node: queue of image_metadata events
    chunk_queues,     \* per node: queue of image_chunk events
    complete_queues,  \* per node: queue of image_complete events
    pc,               \* per capture_all invocation: where it is
    cur,              \* per invocation: the node whose sio.connect it awaits
    tried,            \* per invocation: nodes it ran connect_to_node for
    sess,             \* per invocation and node: the capture_from_node task
    result,           \* per invocation: ImageSet.images, node ids in order
    xfer,             \* per invocation and node: the camera node's handling
                      \*   of that invocation's capture request
    overlapped,       \* history: some capture_all began while another ran
    now,              \* datetime.now(), in whole seconds
    timestamp,        \* per invocation: the timestamp capture_all generated
    job               \* the part of the system outside the capture protocol
                      \*   that a specification is about: a call of the
                      \*   raw-data processing, a capture on the camera node,
                      \*   a streaming client, the preview

vars == <<nodes, sio_clients, connected, metadata_queues, chunk_queues,
          complete_queues, pc, cur, tried, sess, result, xfer, overlapped,
          now, timestamp, job>>

\* The state of the capture protocol: everything but the processing job.
protocol == <<nodes, sio_clients, connected, metadata_queues, chunk_queues,
              complete_queues, pc, cur, tried, sess, result, xfer, overlapped,
              now, timestamp>>

Calls == DOMAIN pc

\* ---------------------------------------------------------------- helpers
Min(S) == CHOOSE x \in S : \A y \in S : x <= y

Range(s) == {s[i] : i \in 1..Len(s)}

RECURSIVE SelectInOrder(_, _)
\* The elements of sequence s that are in set S, in the order of s.
SelectInOrder(s, S) ==
    IF s = <<>> THEN <<>>
    ELSE IF Head(s) \in S THEN <<Head(s)>> \o SelectInOrder(Tail(s), S)
         ELSE SelectInOrder(Tail(s), S)

Terminal == {"ok", "failed"}
Waiting == {"meta", "chunk", "complete"}

\* The data of a 'capture' event: a dict, with the values of its resolution
\* and format keys, or something else. NotAString stands for a value that
\* is no string (a number, null, a list).
NotAString == "<number>"
Absent == "<absent>"
NoData == [dict |-> FALSE, resolution |-> Absent, format |-> Absent]
\* sio.emit('capture', {'resolution': '2304x1296', 'format': 'jpg'})
CaptureData == [dict |-> TRUE, resolution |-> "2304x1296", format |-> "jpg"]

\* A capture_from_node task: its phase, metadata['size'], len(image_data),
\* the error it ended with, the timestamp in the filename it saved, t: the
\* time its current wait_for has been running; and two history fields,
\* stale: it consumed an event sent for another cycle, idle: the time since
\* it last ran.
NoSession == [phase |-> "none", size |-> 0, len |-> 0, reason |-> "", stale |-> FALSE,
              stamp |-> 0, t |-> 0, idle |-> 0]
\* A capture request at the camera node: where handle_capture / send_image
\* is, the data of the request, the format captured, remaining_bytes, how many times the client
\* emitted the request; and history fields, size: the size image_metadata
\* announced, sent: the bytes emitted in image_chunk events, metadata,
\* completes, errors: the image_metadata, image_complete and capture_error
\* events emitted.
NoTransfer == [st |-> "none", data |-> NoData, format |-> Absent, left |-> 0, reqs |-> 0, size |-> 0, sent |-> 0,
               metadata |-> 0, completes |-> 0, errors |-> 0]

\* A session task that raised: the except clause of capture_from_node
\* prints the error and returns None.
Fail(s, why) == [s EXCEPT !.phase = "failed", !.reason = why, !.size = 0, !.len = 0,
                             !.t = 0, !.idle = 0]

\* ------------------------------------------------------------ capture_all
\* Variant: the coroutines awaited one after the other in the loop, each
\* started only when the ones before it have returned.
RunnableInTurn(c, n) ==
    /\ sess[c][n].phase = "created"
    /\ \A m \in nodes : m < n => sess[c][m].phase \in Terminal
\* The tasks asyncio.gather runs: every created task is scheduled, whatever
\* the state of the other tasks.
Runnable(c, n) ==
    sess[c][n].phase = "created"

\* Variant: resuming as soon as the first task has returned.
AnyDone(c) ==
    \E n \in nodes : sess[c][n].phase \in Terminal
\* gather resolves once every task has returned.
AllDone(c) ==
    \A n \in nodes : sess[c][n].phase \in Terminal

\* Variant: one failed task empties the whole result.
ImagesUnlessAnyFailed(c) ==
    IF \E n \in nodes : sess[c][n].phase = "failed" THEN <<>>
    ELSE SelectInOrder(sio_clients, {n \in nodes : sess[c][n].phase = "ok"})
\* Variant: the images listed last task first.
ImagesLastFirst(c) ==
    LET s == SelectInOrder(sio_clients, {n \in nodes : sess[c][n].phase = "ok"}) IN
    [i \in 1..Len(s) |-> s[Len(s) + 1 - i]]
\* [img for img in images if img is not None], in task order.
Images(c) ==
    SelectInOrder(sio_clients, {n \in nodes : sess[c][n].phase = "ok"})

\* capture_all from a resumption point up to its next suspension: the connect
\* loop skips every node already in sio_clients; for the first one that is
\* not, connect_to_node registers the client and fresh queues and awaits
\* sio.connect; with none left the tasks are created and gather is awaited.
Advance(c, conn) ==
    LET todo == nodes \ Range(sio_clients) IN
    IF todo # {}
    THEN LET n == Min(todo) IN
         /\ sio_clients' = Append(sio_clients, n)
         /\ metadata_queues' = [metadata_queues EXCEPT ![n] = <<>>]
         /\ chunk_queues' = [chunk_queues EXCEPT ![n] = <<>>]
         /\ complete_queues' = [complete_queues EXCEPT ![n] = <<>>]
         /\ connected' = conn
         /\ pc' = [pc EXCEPT ![c] = "connecting"]
         /\ cur' = [cur EXCEPT ![c] = n]
         /\ tried' = [tried EXCEPT ![c] = @ \cup {n}]
         /\ UNCHANGED sess
    ELSE /\ pc' = [pc EXCEPT ![c] = "gather"]
         /\ sess' = [sess EXCEPT ![c] =
                        [n \in nodes |-> [NoSession EXCEPT !.phase = "created"]]]
         /\ connected' = conn
         /\ UNCHANGED <<sio_clients, metadata_queues, chunk_queues,
                        complete_queues, cur, tried>>

\* POST /api/capture: capture_all is called and generates its timestamp;
\* invocations are numbered in the order they begin.
CaptureAll(c) ==
    /\ pc[c] = "idle"
    /\ \A d \in Calls : d < c => pc[d] # "idle"
    /\ overlapped' = (overlapped \/ \E d \in Calls : pc[d] \in {"connecting", "gather"})
    /\ timestamp' = [timestamp EXCEPT ![c] = now]
    /\ Advance(c, connected)
    /\ UNCHANGED <<job, nodes, now, result, xfer>>

\* sio.connect returns (ok) or raises (not ok: connect_to_node returns None,
\* the client stays in sio_clients); the loop goes on.
ConnectReturns(c, ok) ==
    /\ pc[c] = "connecting"
    /\ Advance(c, [connected EXCEPT ![cur[c]] = ok])
    /\ UNCHANGED <<job, nodes, now, timestamp, result, xfer, overlapped>>

\* gather returns: the ImageSet is built from the tasks' results.
GatherReturns(c) ==
    /\ pc[c] = "gather"
    /\ AllDone(c)
    /\ pc' = [pc EXCEPT ![c] = "returned"]
    /\ result' = [result EXCEPT ![c] = Images(c)]
    /\ UNCHANGED <<job, nodes, now, timestamp, sio_clients, connected, metadata_queues, chunk_queues,
                   complete_queues, cur, tried, sess, xfer, overlapped>>

\* ------------------------------------------------------ capture_from_node
\* Variant: the queue left as it was found.
NotDrained(q) == q
\* while not queue.empty(): await queue.get()
Drained(q) == <<>>

\* First stretch of the task: the three queues are drained, then the request
\* is emitted; emit raises on a client that is not connected.
BeginCapture(c, n) ==
    /\ pc[c] = "gather"
    /\ Runnable(c, n)
    /\ metadata_queues' = [metadata_queues EXCEPT ![n] = Drained(@)]
    /\ chunk_queues' = [chunk_queues EXCEPT ![n] = Drained(@)]
    /\ complete_queues' = [complete_queues EXCEPT ![n] = Drained(@)]
    /\ IF connected[n]
       THEN /\ sess' = [sess EXCEPT ![c][n].phase = "meta"]
            /\ xfer' = [xfer EXCEPT ![c][n].st = "req", ![c][n].reqs = @ + 1,
                                     ![c][n].data = CaptureData]
       ELSE /\ sess' = [sess EXCEPT ![c][n] = Fail(@, "not connected")]
            /\ UNCHANGED xfer
    /\ UNCHANGED <<job, nodes, now, timestamp, sio_clients, connected, pc, cur, tried, result, overlapped>>

\* Variant: a bare queue.get(), with no timeout.
WaitNeverExpires(q) == FALSE
\* asyncio.wait_for(queue.get(), timeout=10) raises TimeoutError: possible
\* whenever nothing is in the queue it waits on.
WaitExpires(q) == q = <<>>

\* Variant: the chunk loop left after the first pass.
ChunksDoneAtOnce(len, size) == TRUE
\* Variant: the chunk loop running while len(image_data) <= metadata['size'].
ChunksDoneLate(len, size) == ~(len <= size)
\* The chunk loop ends: not (len(image_data) < metadata['size']).
ChunksDone(len, size) == ~(len < size)

\* Variant: one deadline for the whole transfer, the time already waited
\* carried into the next wait.
KeepTimer(t) == t
\* Each wait_for call starts its own timeout.
RestartTimer(t) == 0

\* wait_for(metadata_queues[n].get(), 10) returns an event.
RecvMetadata(c, n) ==
    /\ sess[c][n].phase = "meta"
    /\ metadata_queues[n] # <<>>
    /\ LET md == Head(metadata_queues[n]) IN
       sess' = [sess EXCEPT ![c][n] =
                   [@ EXCEPT !.phase = IF ChunksDone(0, md.size) THEN "complete" ELSE "chunk",
                             !.size = md.size,
                             !.len = 0,
                             !.stale = @ \/ md.cyc # c,
                             !.t = RestartTimer(@),
                             !.idle = 0]]
    /\ metadata_queues' = [metadata_queues EXCEPT ![n] = Tail(@)]
    /\ UNCHANGED <<job, nodes, now, timestamp, sio_clients, connected, chunk_queues, complete_queues,
                   pc, cur, tried, result, xfer, overlapped>>

\* Variant: the request emitted once more when the metadata wait expires.
TimeoutMetadataRetry(c, n) ==
    /\ sess[c][n].phase = "meta"
    /\ WaitExpires(metadata_queues[n])
    /\ IF xfer[c][n].reqs < 2
       THEN /\ xfer' = [xfer EXCEPT ![c][n].reqs = @ + 1]
            /\ UNCHANGED sess
       ELSE /\ sess' = [sess EXCEPT ![c][n] = Fail(@, "metadata timeout")]
            /\ UNCHANGED xfer
    /\ UNCHANGED <<job, nodes, now, timestamp, sio_clients, connected, metadata_queues, chunk_queues,
                   complete_queues, pc, cur, tried, result, overlapped>>
\* wait_for raises TimeoutError: Exception("Timeout waiting for metadata").
TimeoutMetadata(c, n) ==
    /\ sess[c][n].phase = "meta"
    /\ WaitExpires(metadata_queues[n])
    /\ sess' = [sess EXCEPT ![c][n] = Fail(@, "metadata timeout")]
    /\ UNCHANGED <<job, nodes, now, timestamp, sio_clients, connected, metadata_queues, chunk_queues,
                   complete_queues, pc, cur, tried, result, xfer, overlapped>>

\* image_data.extend(chunk)
Extend(len, chunk) == len + chunk.len

\* wait_for(chunk_queues[n].get(), 10) returns a chunk; the loop goes on
\* while len(image_data) < metadata['size'].
RecvChunk(c, n) ==
    /\ sess[c][n].phase = "chunk"
    /\ chunk_queues[n] # <<>>
    /\ LET ch == Head(chunk_queues[n])
           len == Extend(sess[c][n].len, ch) IN
       sess' = [sess EXCEPT ![c][n] =
                   [@ EXCEPT !.phase = IF ChunksDone(len, sess[c][n].size)
                                       THEN "complete" ELSE "chunk",
                             !.len = len,
                             !.stale = @ \/ ch.cyc # c,
                             !.t = RestartTimer(@),
                             !.idle = 0]]
    /\ chunk_queues' = [chunk_queues EXCEPT ![n] = Tail(@)]
    /\ UNCHANGED <<job, nodes, now, timestamp, sio_clients, connected, metadata_queues, complete_queues,
                   pc, cur, tried, result, xfer, overlapped>>

TimeoutChunk(c, n) ==
    /\ sess[c][n].phase = "chunk"
    /\ WaitExpires(chunk_queues[n])
    /\ sess' = [sess EXCEPT ![c][n] = Fail(@, "chunk timeout")]
    /\ UNCHANGED <<job, nodes, now, timestamp, sio_clients, connected, metadata_queues, chunk_queues,
                   complete_queues, pc, cur, tried, result, xfer, overlapped>>

\* Variant: the filename stamped with the time of saving.
FileStampAtSave(c) == now
\* filename = f"image_{timestamp}_{node_id}.jpg", timestamp the argument
\* capture_all passed.
FileStamp(c) == timestamp[c]

\* wait_for(complete_queues[n].get(), 10) returns; the image is written,
\* re-encoded and the ImageInfo returned (saved), or writing or decoding
\* raises (not saved).
RecvComplete(c, n, saved) ==
    /\ sess[c][n].phase = "complete"
    /\ complete_queues[n] # <<>>
    /\ LET done == Head(complete_queues[n])
           s == [sess[c][n] EXCEPT !.stale = @ \/ done.cyc # c] IN
       sess' = [sess EXCEPT ![c][n] =
                   IF saved THEN [s EXCEPT !.phase = "ok", !.size = 0, !.len = 0,
                                           !.stamp = FileStamp(c), !.t = 0, !.idle = 0]
                   ELSE Fail(s, "save error")]
    /\ complete_queues' = [complete_queues EXCEPT ![n] = Tail(@)]
    /\ UNCHANGED <<job, nodes, now, timestamp, sio_clients, connected, metadata_queues, chunk_queues,
                   pc, cur, tried, result, xfer, overlapped>>

TimeoutComplete(c, n) ==
    /\ sess[c][n].phase = "complete"
    /\ WaitExpires(complete_queues[n])
    /\ sess' = [sess EXCEPT ![c][n] = Fail(@, "completion timeout")]
    /\ UNCHANGED <<job, nodes, now, timestamp, sio_clients, connected, metadata_queues, chunk_queues,
                   complete_queues, pc, cur, tried, result, xfer, overlapped>>

\* ------------------------------------------------- camera node (endpoint)
\* str.lower of the requested format: a value that is no string has no
\* lower(), the others are lower-cased.
HasLower(v) == v # NotAString
Lower(v) ==
    CASE v = "JPG" -> "jpg"
      [] v = "DNG" -> "dng"
      [] OTHER -> v

\* handle_capture reads resolution and format from the data: defaults for
\* data that is no dict or lacks the key, and lower() of the format.  The
\* result is the requested pair, or nothing when lower() raises.
Requested(data) ==
    IF ~data.dict THEN [ok |-> TRUE, resolution |-> DEFAULT_RESOLUTION, format |-> DEFAULT_FORMAT]
    ELSE LET r == IF data.resolution = Absent THEN DEFAULT_RESOLUTION ELSE data.resolution
             f == IF data.format = Absent THEN DEFAULT_FORMAT ELSE data.format
         IN IF HasLower(f) THEN [ok |-> TRUE, resolution |-> r, format |-> Lower(f)]
            ELSE [ok |-> FALSE, resolution |-> r, format |-> f]

\* handle_capture validates the requested pair: an unsupported resolution
\* or format is replaced by the default.
Validated(req) ==
    [resolution |-> IF req.resolution \in SUPPORTED_RESOLUTIONS
                    THEN req.resolution ELSE DEFAULT_RESOLUTION,
     format |-> IF req.format \in SUPPORTED_FORMATS THEN req.format ELSE DEFAULT_FORMAT]

\* handle_capture: capture_image (or opening the file) raised; the node emits
\* capture_error.  The backend client registers no capture_error handler, so
\* the event changes nothing on the client.
HandleCaptureError(c, n) ==
    /\ xfer[c][n].st = "req"
    /\ Requested(xfer[c][n].data).ok
    /\ xfer' = [xfer EXCEPT ![c][n].st = "error", ![c][n].errors = @ + 1]
    /\ UNCHANGED <<job, nodes, now, timestamp, sio_clients, connected, metadata_queues, chunk_queues,
                   complete_queues, pc, cur, tried, sess, result, overlapped>>

\* Variant: image_metadata emitted again in the middle of the chunks.
SendMetadataAgain(c, n, size) ==
    /\ xfer[c][n].st \in {"req", "sending"}
    /\ Requested(xfer[c][n].data).ok
    /\ xfer[c][n].metadata < 2
    /\ xfer' = [xfer EXCEPT ![c][n].st = "sending",
                             ![c][n].left = IF xfer[c][n].st = "req" THEN size ELSE @,
                             ![c][n].size = IF xfer[c][n].st = "req" THEN size ELSE @,
                             ![c][n].metadata = @ + 1]
    /\ metadata_queues' = [metadata_queues EXCEPT ![n] =
                              Append(@, [cyc |-> c, size |-> size])]
    /\ UNCHANGED <<job, nodes, now, timestamp, sio_clients, connected, chunk_queues, complete_queues,
                   pc, cur, tried, sess, result, overlapped>>
\* send_image emits image_metadata; the client's handler enqueues it.
SendMetadata(c, n, size) ==
    /\ xfer[c][n].st = "req"
    /\ Requested(xfer[c][n].data).ok
    /\ xfer' = [xfer EXCEPT ![c][n].st = "sending", ![c][n].left = size,
                             ![c][n].size = size, ![c][n].sent = 0,
                             ![c][n].metadata = @ + 1,
                             ![c][n].format = Validated(Requested(xfer[c][n].data)).format]
    /\ metadata_queues' = [metadata_queues EXCEPT ![n] =
                              Append(@, [cyc |-> c, size |-> size])]
    /\ UNCHANGED <<job, nodes, now, timestamp, sio_clients, connected, chunk_queues, complete_queues,
                   pc, cur, tried, sess, result, overlapped>>

\* Variant: every chunk read with the full chunk size.
ChunkLenFull(remaining) == CHUNK_SIZE
\* chunk_size = min(CHUNK_SIZE, remaining_bytes); the file holds
\* file_info['size'] bytes, so read() returns that many.
ChunkLen(remaining) == IF CHUNK_SIZE < remaining THEN CHUNK_SIZE ELSE remaining

\* History of an image_chunk event: the sessions on node n that have
\* emitted their request and whose metadata the node has not emitted yet
\* when the chunk arrives.
AwaitingMetadata(n) ==
    {d \in Calls : sess[d][n].phase = "meta" /\ xfer[d][n].metadata = 0}

\* send_image emits the next image_chunk while remaining_bytes > 0.
SendChunk(c, n) ==
    /\ xfer[c][n].st = "sending"
    /\ xfer[c][n].left > 0
    /\ LET k == ChunkLen(xfer[c][n].left) IN
       /\ xfer' = [xfer EXCEPT ![c][n].left = @ - k, ![c][n].sent = @ + k]
       /\ chunk_queues' = [chunk_queues EXCEPT ![n] = Append(@, [cyc |-> c, len |-> k, before |-> AwaitingMetadata(n)])]
    /\ UNCHANGED <<job, nodes, now, timestamp, sio_clients, connected, metadata_queues, complete_queues,
                   pc, cur, tried, sess, result, overlapped>>

\* send_image emits image_complete once the loop has ended.
SendComplete(c, n) ==
    /\ xfer[c][n].st = "sending"
    /\ ~(xfer[c][n].left > 0)
    /\ xfer' = [xfer EXCEPT ![c][n].st = "done", ![c][n].completes = @ + 1]
    /\ complete_queues' = [complete_queues EXCEPT ![n] = Append(@, [cyc |-> c])]
    /\ UNCHANGED <<job, nodes, now, timestamp, sio_clients, connected, metadata_queues, chunk_queues,
                   pc, cur, tried, sess, result, overlapped>>

\* ---------------------------------------------------------- specification
\* No processing call.
NoJob == [op |-> "none"]

\* A client of N endpoints before its first of C capture_all calls.
InitProtocol(N, C) ==
    /\ nodes = 1..N
    /\ sio_clients = <<>>
    /\ connected = [n \in 1..N |-> FALSE]
    /\ metadata_queues = [n \in 1..N |-> <<>>]
    /\ chunk_queues = [n \in 1..N |-> <<>>]
    /\ complete_queues = [n \in 1..N |-> <<>>]
    /\ pc = [c \in 1..C |-> "idle"]
    /\ cur = [c \in 1..C |-> 0]
    /\ tried = [c \in 1..C |-> {}]
    /\ sess = [c \in 1..C |-> [n \in 1..N |-> NoSession]]
    /\ result = [c \in 1..C |-> <<>>]
    /\ xfer = [c \in 1..C |-> [n \in 1..N |-> NoTransfer]]
    /\ overlapped = FALSE
    /\ now = 0
    /\ timestamp = [c \in 1..C |-> 0]

InitFor(N, C) ==
    /\ InitProtocol(N, C)
    /\ job = NoJob

\* One capture_all invocation on a client configured with up to NumNodes
\* endpoints.
Init == \E N \in 0..NumNodes : InitFor(N, 1)

Next ==
    \/ \E c \in Calls : CaptureAll(c)
    \/ \E c \in Calls, ok \in BOOLEAN : ConnectReturns(c, ok)
    \/ \E c \in Calls : GatherReturns(c)
    \/ \E c \in Calls, n \in nodes : BeginCapture(c, n)
    \/ \E c \in Calls, n \in nodes : RecvMetadata(c, n)
    \/ \E c \in Calls, n \in nodes : TimeoutMetadata(c, n)
    \/ \E c \in Calls, n \in nodes : RecvChunk(c, n)
    \/ \E c \in Calls, n \in nodes : TimeoutChunk(c, n)
    \/ \E c \in Calls, n \in nodes, saved \in BOOLEAN : RecvComplete(c, n, saved)
    \/ \E c \in Calls, n \in nodes : TimeoutComplete(c, n)
    \/ \E c \in Calls, n \in nodes : HandleCaptureError(c, n)
    \/ \E c \in Calls, n \in nodes, size \in 1..MaxSize : SendMetadata(c, n, size)
    \/ \E c \in Calls, n \in nodes : SendChunk(c, n)
    \/ \E c \in Calls, n \in nodes : SendComplete(c, n)

Spec == Init /\ [][Next]_vars

\* Up to MaxCalls capture_all invocations, one after another or overlapping
\* (main.py awaits capture_all in every POST /api/capture), on one endpoint.
InitCycles == InitFor(1, MaxCalls)

SpecCycles == InitCycles /\ [][Next]_vars

\* The four configured endpoints of main.py, one capture_all invocation;
\* endpoint 2 never answers, the others are reachable, answer every request
\* with a whole transfer before any wait of their session expires, and send
\* images that can be saved.
Silent == {2}

InitSilent == InitFor(ConfiguredNodes, 1)

NextSilent ==
    \/ \E c \in Calls : CaptureAll(c)
    \/ \E c \in Calls : ConnectReturns(c, TRUE)
    \/ \E c \in Calls : GatherReturns(c)
    \/ \E c \in Calls, n \in nodes : BeginCapture(c, n)
    \/ \E c \in Calls, n \in nodes : RecvMetadata(c, n)
    \/ \E c \in Calls, n \in Silent : TimeoutMetadata(c, n)
    \/ \E c \in Calls, n \in nodes : RecvChunk(c, n)
    \/ \E c \in Calls, n \in nodes : RecvComplete(c, n, TRUE)
    \/ \E c \in Calls, n \in nodes \ Silent, size \in 1..MaxSize : SendMetadata(c, n, size)
    \/ \E c \in Calls, n \in nodes \ Silent : SendChunk(c, n)
    \/ \E c \in Calls, n \in nodes \ Silent : SendComplete(c, n)

\* The event loop runs every ready task, timers fire, and a responsive
\* endpoint keeps sending: no enabled step is postponed forever.
SpecSilent == InitSilent /\ [][NextSilent]_vars /\ WF_vars(NextSilent)

\* Two capture_all invocations on one endpoint, one after the other or
\* overlapping: a cycle and the cycle before it.
InitPair == InitFor(1, 2)

SpecPair == InitPair /\ [][Next]_vars

\* ---- timers
\* One tick of time passes: every pending wait_for has run one tick longer.
\* Time does not pass beyond the deadline of a pending wait.
Tick ==
    /\ \E c \in Calls, n \in nodes : sess[c][n].phase \in Waiting
    /\ \A c \in Calls, n \in nodes :
          sess[c][n].phase \in Waiting => sess[c][n].t < WAIT_TIMEOUT
    /\ sess' = [c \in Calls |-> [n \in nodes |->
                  IF sess[c][n].phase \in Waiting
                  THEN [sess[c][n] EXCEPT !.t = @ + 1, !.idle = @ + 1]
                  ELSE sess[c][n]]]
    /\ now' = now + 1
    /\ UNCHANGED <<job, nodes, timestamp, sio_clients, connected, metadata_queues, chunk_queues,
                   complete_queues, pc, cur, tried, result, xfer, overlapped>>

\* wait_for's timeout=10 has run out for the wait of the session.
Expired(c, n) == sess[c][n].t = WAIT_TIMEOUT

\* One capture_all invocation on one endpoint, with time counted: a wait
\* raises TimeoutError only at its deadline.
InitTimed == InitFor(1, 1)

NextTimed ==
    \/ \E c \in Calls : CaptureAll(c)
    \/ \E c \in Calls, ok \in BOOLEAN : ConnectReturns(c, ok)
    \/ \E c \in Calls : GatherReturns(c)
    \/ \E c \in Calls, n \in nodes : BeginCapture(c, n)
    \/ \E c \in Calls, n \in nodes : RecvMetadata(c, n)
    \/ \E c \in Calls, n \in nodes : Expired(c, n) /\ TimeoutMetadata(c, n)
    \/ \E c \in Calls, n \in nodes : RecvChunk(c, n)
    \/ \E c \in Calls, n \in nodes : Expired(c, n) /\ TimeoutChunk(c, n)
    \/ \E c \in Calls, n \in nodes, saved \in BOOLEAN : RecvComplete(c, n, saved)
    \/ \E c \in Calls, n \in nodes : Expired(c, n) /\ TimeoutComplete(c, n)
    \/ \E c \in Calls, n \in nodes : HandleCaptureError(c, n)
    \/ \E c \in Calls, n \in nodes, size \in 1..MaxSize : SendMetadata(c, n, size)
    \/ \E c \in Calls, n \in nodes : SendChunk(c, n)
    \/ \E c \in Calls, n \in nodes : SendComplete(c, n)
    \/ Tick

SpecTimed == InitTimed /\ [][NextTimed]_vars

\* ---- wall clock
\* datetime.now() moves on by a second.
ClockTick ==
    /\ now < MaxClock
    /\ now' = now + 1
    /\ UNCHANGED <<job, nodes, timestamp, sio_clients, connected, metadata_queues, chunk_queues,
                   complete_queues, pc, cur, tried, sess, result, xfer, overlapped>>

NextStamp ==
    \/ Next
    \/ ClockTick

\* One capture_all invocation on two endpoints while the wall clock runs.
InitStamp == InitFor(2, 1)

SpecStamp == InitStamp /\ [][NextStamp]_vars

\* Two capture_all invocations on one endpoint, one after the other or
\* overlapping, while the wall clock runs.
SpecPairStamp == InitPair /\ [][NextStamp]_vars

\* ---- cancellation
\* The task awaiting capture_all is cancelled: CancelledError is raised at
\* the await it is suspended in, gather cancels its tasks, and in each task
\* the error passes "except Exception" (it is a BaseException): nothing is
\* printed, no value is returned, capture_all builds no ImageSet.
Cancel(c) ==
    /\ pc[c] \in {"connecting", "gather"}
    /\ pc' = [pc EXCEPT ![c] = "cancelled"]
    /\ sess' = [sess EXCEPT ![c] = [n \in nodes |->
                  IF sess[c][n].phase \in Waiting \cup {"created"}
                  THEN [sess[c][n] EXCEPT !.phase = "cancelled", !.size = 0, !.len = 0,
                                          !.t = 0, !.idle = 0]
                  ELSE sess[c][n]]]
    /\ UNCHANGED <<job, nodes, now, timestamp, sio_clients, connected, metadata_queues, chunk_queues,
                   complete_queues, cur, tried, result, xfer, overlapped>>

NextCancel ==
    \/ Next
    \/ \E c \in Calls : Cancel(c)

\* One capture_all invocation that its caller may cancel.
SpecCancel == Init /\ [][NextCancel]_vars

\* ---- the camera node and any client
\* The values a client may put under the resolution and format keys.
ResolutionValues == {"2304x1296", "640x480", Absent}
FormatValues == {"jpg", "DNG", "png", NotAString, Absent}
CaptureDatas ==
    {NoData} \cup [dict : {TRUE}, resolution : ResolutionValues, format : FormatValues]

\* A connected client emits 'capture' with some data; the node receives it.
ReceiveCapture(c, n, data) ==
    /\ xfer[c][n].st = "none"
    /\ \A d \in Calls : d < c => xfer[d][n].st # "none"
    /\ xfer' = [xfer EXCEPT ![c][n].st = "req", ![c][n].reqs = @ + 1, ![c][n].data = data]
    /\ UNCHANGED <<job, nodes, now, timestamp, sio_clients, connected, metadata_queues, chunk_queues,
                   complete_queues, pc, cur, tried, sess, result, overlapped>>

\* handle_capture: data.get('format', DEFAULT_FORMAT).lower() raises outside
\* the try block; the handler ends with the exception and emits nothing.
HandlerRaises(c, n) ==
    /\ xfer[c][n].st = "req"
    /\ ~Requested(xfer[c][n].data).ok
    /\ xfer' = [xfer EXCEPT ![c][n].st = "raised"]
    /\ UNCHANGED <<job, nodes, now, timestamp, sio_clients, connected, metadata_queues, chunk_queues,
                   complete_queues, pc, cur, tried, sess, result, overlapped>>

\* send_image: image_file.read (or an emit) raises after image_metadata was
\* emitted; the except clause emits capture_error.
SendFails(c, n) ==
    /\ xfer[c][n].st = "sending"
    /\ xfer' = [xfer EXCEPT ![c][n].st = "error", ![c][n].errors = @ + 1]
    /\ UNCHANGED <<job, nodes, now, timestamp, sio_clients, connected, metadata_queues, chunk_queues,
                   complete_queues, pc, cur, tried, sess, result, overlapped>>

\* One camera node serving two capture requests of its clients, one after
\* the other or interleaved; the three queues hold the events it emitted, in
\* order.
InitNode == InitFor(1, 2)

NextNode ==
    \/ \E c \in Calls, n \in nodes, data \in CaptureDatas : ReceiveCapture(c, n, data)
    \/ \E c \in Calls, n \in nodes : HandlerRaises(c, n)
    \/ \E c \in Calls, n \in nodes : HandleCaptureError(c, n)
    \/ \E c \in Calls, n \in nodes, size \in 1..MaxSize : SendMetadata(c, n, size)
    \/ \E c \in Calls, n \in nodes : SendChunk(c, n)
    \/ \E c \in Calls, n \in nodes : SendFails(c, n)
    \/ \E c \in Calls, n \in nodes : SendComplete(c, n)

SpecNode == InitNode /\ [][NextNode]_vars

\* ------------------------------------------- raw-data processing (numpy)
\* Integer operators of numpy on unsigned values: x << k within the dtype of
\* x (bits wide), x >> k, x | y, x & y.
ShiftLeft(x, k, bits) == (x * 2^k) % 2^bits
ShiftRight(x, k) == x \div 2^k
RECURSIVE BitOr(_, _)
BitOr(x, y) ==
    IF x = 0 THEN y
    ELSE IF y = 0 THEN x
    ELSE (IF x % 2 = 1 \/ y % 2 = 1 THEN 1 ELSE 0) + 2 * BitOr(x \div 2, y \div 2)
RECURSIVE BitAnd(_, _)
BitAnd(x, y) ==
    IF x = 0 \/ y = 0 THEN 0
    ELSE (IF x % 2 = 1 /\ y % 2 = 1 THEN 1 ELSE 0) + 2 * BitAnd(x \div 2, y \div 2)

\* process_raw_data, "Unpack the 10-bit data", on one row b of reshaped_data
\* (b[1]..b[5] are its columns 0..4).  reshaped_data is a uint8 array and
\* the shift counts are Python ints, so the shifts and the | are computed in
\* uint8; the mask 0x3FF does not fit uint8.  With value-based casting
\* (legacy: NumPy 1.x) the & is computed in uint16; with NEP 50 promotion
\* (NumPy 2) it raises OverflowError.
UnpackRow(b, legacy) ==
    IF legacy
    THEN [err |-> "",
          samples |->
            <<BitAnd(BitOr(ShiftLeft(b[1], 2, UINT8_BITS), ShiftRight(b[2], 6)), MASK),
              BitAnd(BitOr(ShiftLeft(b[2], 4, UINT8_BITS), ShiftRight(b[3], 4)), MASK),
              BitAnd(BitOr(ShiftLeft(b[3], 6, UINT8_BITS), ShiftRight(b[4], 2)), MASK),
              BitAnd(BitOr(ShiftLeft(b[4], 8, UINT8_BITS), b[5]), MASK)>>]
    ELSE [err |-> "OverflowError", samples |-> <<>>]

\* ---- one 5-byte group
\* Byte values on both sides of every bit position the unpacking splits at.
ByteValues == {0, 1, 3, 16, 64, 255}
Groups == [1..5 -> ByteValues]

\* The unpacking is applied to one row of reshaped_data, any group of five
\* of these bytes, under either numpy.
InitUnpack ==
    /\ InitProtocol(0, 1)
    /\ \E g \in Groups :
          job = [op |-> "unpack", row |-> g, done |-> FALSE,
                 out |-> [err |-> "", samples |-> <<>>]]

Unpack(legacy) ==
    /\ job.op = "unpack"
    /\ ~job.done
    /\ job' = [job EXCEPT !.done = TRUE, !.out = UnpackRow(job.row, legacy)]
    /\ UNCHANGED protocol

NextUnpack == \E legacy \in BOOLEAN : Unpack(legacy)

SpecUnpack == InitUnpack /\ [][NextUnpack]_vars

\* ---- arrays
\* A numpy array of two dimensions: its shape and its items, indexed from 0.
\* The indices of an array of rows x cols.
Cells(rows, cols) == (0..(rows - 1)) \X (0..(cols - 1))
Array(rows, cols, at) == [rows |-> rows, cols |-> cols, at |-> at]
NoArray == [rows |-> 0, cols |-> 0, at |-> <<>>]

\* len(range(start, n, 2)): the items a[start::2] selects along an axis of n.
SliceLen(n, start) == IF n > start THEN (n - start + 1) \div 2 ELSE 0
\* a[r0::2, c0::2]
Slice(a, r0, c0) ==
    LET rows == SliceLen(a.rows, r0)
        cols == SliceLen(a.cols, c0)
    IN Array(rows, cols, [p \in Cells(rows, cols) |-> a.at[<<r0 + 2 * p[1], c0 + 2 * p[2]>>]])
\* a[:height, :width]: a slice beyond the end of an axis stops at the end.
Crop(a, height, width) ==
    LET rows == IF height < a.rows THEN height ELSE a.rows
        cols == IF width < a.cols THEN width ELSE a.cols
    IN Array(rows, cols, [p \in Cells(rows, cols) |-> a.at[p]])
\* np.vstack / np.hstack with np.zeros: a extended by zeros to rows x cols.
ZeroPadded(a, rows, cols) ==
    Array(rows, cols,
          [p \in Cells(rows, cols) |-> IF p[1] < a.rows /\ p[2] < a.cols THEN a.at[p] ELSE 0])

\* Broadcasting: an axis of the source fits an axis of the target of the
\* same length, or is of length 1 and is repeated.
Fits(src, rows, cols) ==
    /\ src.rows = rows \/ src.rows = 1
    /\ src.cols = cols \/ src.cols = 1
Broadcast(src, rows, cols) ==
    Array(rows, cols,
          [p \in Cells(rows, cols) |->
               src.at[<<IF src.rows = 1 THEN 0 ELSE p[1], IF src.cols = 1 THEN 0 ELSE p[2]>>]])
\* The shapes of the operands of a + b agree or broadcast to one shape.
Compatible(a, b) ==
    /\ a.rows = b.rows \/ a.rows = 1 \/ b.rows = 1
    /\ a.cols = b.cols \/ a.cols = 1 \/ b.cols = 1
\* (a + b) // 2 in an unsigned dtype of the given width.
HalfSum(a, b, bits) ==
    LET rows == IF a.rows = 1 THEN b.rows ELSE a.rows
        cols == IF a.cols = 1 THEN b.cols ELSE a.cols
        x == Broadcast(a, rows, cols)
        y == Broadcast(b, rows, cols)
    IN Array(rows, cols, [p \in Cells(rows, cols) |-> ((x.at[p] + y.at[p]) % 2^bits) \div 2])

\* ---- the two processing functions
\* bayer_pattern values: strings, as sequences of characters.
RGGB == <<"R", "G", "G", "B">>
BGGR == <<"B", "G", "G", "R">>
GRBG == <<"G", "R", "B", "G">>
GBRG == <<"G", "B", "R", "G">>
\* str.startswith
StartsWith(s, prefix) ==
    Len(s) >= Len(prefix) /\ SubSeq(s, 1, Len(prefix)) = prefix

\* The outcome of a call that raised: the error, the grid of the camera's
\* dimensions and the grid cut to the requested ones, where it got that far.
Raised(err, grid, raw) == [err |-> err, used |-> 0, grid |-> grid, raw |-> raw, image |-> <<>>]
\* The outcome of a call that saved an image of the given channels.
Saved(used, grid, raw, image) ==
    [err |-> "", used |-> used, grid |-> grid, raw |-> raw, image |-> image]

\* The received bytes: data[i]
Data(j, i) == (j.seed + i) % 2^UINT8_BITS

\* src/testing/get_images-fast.py process_raw_data, "if node_id == node_1":
\* one branch per pattern prefix, each channel assigned to
\* rgb_image[:, :, k] of shape (height, width); a source that does not
\* broadcast to that shape raises ValueError.
DemosaicFast(j, used, grid, raw) ==
    LET h == j.height
        w == j.width
        s00 == Slice(raw, 0, 0)
        s01 == Slice(raw, 0, 1)
        s10 == Slice(raw, 1, 0)
        s11 == Slice(raw, 1, 1)
        p == j.bayer_pattern
    IN IF StartsWith(p, RGGB) \/ StartsWith(p, BGGR)
       THEN IF /\ Fits(s00, h, w)
               /\ Compatible(s01, s10)
               /\ Fits(HalfSum(s01, s10, UINT16_BITS), h, w)
               /\ Fits(s11, h, w)
            THEN LET first == Broadcast(s00, h, w)
                     green == Broadcast(HalfSum(s01, s10, UINT16_BITS), h, w)
                     last == Broadcast(s11, h, w)
                 IN IF StartsWith(p, RGGB) THEN Saved(used, grid, raw, <<first, green, last>>)
                    ELSE Saved(used, grid, raw, <<last, green, first>>)
            ELSE Raised("ValueError", grid, raw)
       ELSE IF StartsWith(p, GRBG) \/ StartsWith(p, GBRG)
       THEN IF /\ Fits(s00, h, w)
               /\ Fits(s01, h, w)
               /\ Fits(s10, h, w)
               /\ Compatible(Broadcast(s00, h, w), s11)
               /\ Fits(HalfSum(Broadcast(s00, h, w), s11, UINT16_BITS), h, w)
            THEN LET green == Broadcast(HalfSum(Broadcast(s00, h, w), s11, UINT16_BITS), h, w)
                     x == Broadcast(s01, h, w)
                     y == Broadcast(s10, h, w)
                 IN IF StartsWith(p, GRBG) THEN Saved(used, grid, raw, <<x, green, y>>)
                    ELSE Saved(used, grid, raw, <<y, green, x>>)
            ELSE Raised("ValueError", grid, raw)
       ELSE Raised("UnsupportedPattern", grid, raw)

\* src/testing/get_images-fast.py process_raw_data: the size check, the
\* reshape to rows of 5 bytes, the unpacking, the reshape to the camera
\* dimensions, the crop, then the demosaicing for node_1 and the grid as it
\* is for the other nodes.
process_raw_data(j, legacy) ==
    LET cw == j.camera_width
        ch == j.camera_height
        expected_size == (cw * ch * 5) \div 4
        groups == (ch * cw) \div 4
        unpacked(i) ==
            UnpackRow([k \in 1..5 |-> Data(j, 5 * (i \div 4) + k - 1)], legacy).samples[(i % 4) + 1]
        grid == Array(ch, cw, [p \in Cells(ch, cw) |-> unpacked(p[1] * cw + p[2])])
        raw_image == Crop(grid, j.height, j.width)
    IN IF j.len # expected_size THEN Raised("SizeMismatch", NoArray, NoArray)
       ELSE IF j.len # groups * 5 THEN Raised("ValueError", NoArray, NoArray)
       ELSE IF ~legacy THEN Raised("OverflowError", NoArray, NoArray)
       ELSE IF j.node_id = "node_1" THEN DemosaicFast(j, j.len, grid, raw_image)
       ELSE Saved(j.len, grid, raw_image, <<raw_image>>)

\* src/testing/get_images.py process_and_save: the bytes are the samples.
\* With requested dimensions that differ from the camera's the data is cut
\* to camera_width * camera_height bytes, reshaped, and cropped or padded
\* with zeros; otherwise it is reshaped to the requested dimensions.  For
\* node_1 only the pattern "RGGB" is demosaiced, in uint8.
process_and_save(j) ==
    LET cw == j.camera_width
        ch == j.camera_height
        h == j.height
        w == j.width
        differ == w # cw \/ h # ch
        used == IF differ /\ cw * ch < j.len THEN cw * ch ELSE j.len
        sensor == Array(ch, cw, [p \in Cells(ch, cw) |-> Data(j, p[1] * cw + p[2])])
        raw_image == IF differ THEN ZeroPadded(Crop(sensor, h, w), h, w) ELSE sensor
        s00 == Slice(raw_image, 0, 0)
        s01 == Slice(raw_image, 0, 1)
        s10 == Slice(raw_image, 1, 0)
        s11 == Slice(raw_image, 1, 1)
    IN IF used # cw * ch THEN Raised("ValueError", NoArray, NoArray)
       ELSE IF j.node_id = "node_1"
       THEN IF j.bayer_pattern = RGGB
            THEN IF Fits(s00, h, w) /\ Fits(s01, h, w) /\ Fits(s10, h, w) /\ Fits(s11, h, w)
                 THEN Saved(used, sensor, raw_image,
                            <<Broadcast(s00, h, w),
                              HalfSum(Broadcast(s01, h, w), Broadcast(s10, h, w), UINT8_BITS),
                              Broadcast(s11, h, w)>>)
                 ELSE Raised("ValueError", sensor, raw_image)
            ELSE Raised("UnsupportedPattern", sensor, raw_image)
       ELSE Saved(used, sensor, raw_image, <<raw_image>>)

\* ---- a processing call
\* Camera dimensions 2..MaxDim, requested dimensions up to one more.
CameraDims == 2..MaxDim
RequestDims == 2..(MaxDim + 1)
\* Declared patterns: the four tilings, a tiling with a suffix, a string
\* that is no tiling, and the empty string.
Patterns == {RGGB, BGGR, GRBG, GBRG, RGGB \o <<"1", "0">>, <<"n", "o", "n", "e">>, <<>>}
NodeIds == {"node_1", "node_2"}
\* The first byte of the data; the following bytes count up from it.
Seeds == {1, 250}
\* ceil(num / den)
Ceil(num, den) == (num + den - 1) \div den
\* Input lengths at and next to the sizes the two functions and the packing
\* of 10 bits per sample give for a camera of cw x ch.
Lengths(cw, ch) ==
    LET sizes == {cw * ch, (cw * ch * 5) \div 4, Ceil(cw * ch * 10, 8)}
    IN {n + d : n \in sizes, d \in {-1, 0, 1}}

InitProcess ==
    /\ InitProtocol(0, 1)
    /\ \E fn \in {"process_raw_data", "process_and_save"}, id \in NodeIds, p \in Patterns,
          cw \in CameraDims, ch \in CameraDims, w \in RequestDims, h \in RequestDims,
          seed \in Seeds :
          \E n \in Lengths(cw, ch) :
              job = [op |-> fn, node_id |-> id, bayer_pattern |-> p,
                     camera_width |-> cw, camera_height |-> ch, width |-> w, height |-> h,
                     len |-> n, seed |-> seed, done |-> FALSE,
                     out |-> Raised("", NoArray, NoArray)]

\* process_raw_data is called, under either numpy.
ProcessRawData(legacy) ==
    /\ job.op = "process_raw_data"
    /\ ~job.done
    /\ job' = [job EXCEPT !.done = TRUE, !.out = process_raw_data(job, legacy)]
    /\ UNCHANGED protocol

\* process_and_save is called.
ProcessAndSave ==
    /\ job.op = "process_and_save"
    /\ ~job.done
    /\ job' = [job EXCEPT !.done = TRUE, !.out = process_and_save(job)]
    /\ UNCHANGED protocol

NextProcess ==
    \/ \E legacy \in BOOLEAN : ProcessRawData(legacy)
    \/ ProcessAndSave

SpecProcess == InitProcess /\ [][NextProcess]_vars

\* ------------------------------------------ camera node: capture_image
\* Files of CAPTURE_DIR in the order of their creation time: whether the
\* name matches *.raw, and the size in the unit STORAGE_LIMIT_MB counts.
FileKinds == [raw : BOOLEAN, size : 1..MaxFileSize]
RECURSIVE Directories(_)
Directories(n) ==
    IF n = 0 THEN {<<>>}
    ELSE Directories(n - 1) \cup
         {Append(d, f) : d \in {e \in Directories(n - 1) : Len(e) = n - 1}, f \in FileKinds}

\* get_directory_size_mb: the sum of os.path.getsize over the files.
RECURSIVE get_directory_size_mb(_)
get_directory_size_mb(files) ==
    IF files = <<>> THEN 0 ELSE Head(files).size + get_directory_size_mb(Tail(files))

\* sorted(Path(CAPTURE_DIR).glob('*.raw'), key=os.path.getctime): the
\* positions of the *.raw files, oldest first.
RawFiles(files) == {i \in 1..Len(files) : files[i].raw}
\* os.remove(files[i])
Remove(files, i) == [k \in 1..(Len(files) - 1) |-> IF k < i THEN files[k] ELSE files[k + 1]]

\* Variant: the except clauses of capture_image leave the file in place.
FileAfterFailureKept(written) == written
\* capture_image, except clauses: if os.path.exists(filepath):
\* os.remove(filepath).  Whether the file exists afterwards.
FileAfterFailure(written) == FALSE

\* HTTPException(status_code=504) on subprocess.TimeoutExpired, 500 on any
\* other exception of the try block.
StatusCode(outcome) == IF outcome = "timeout" THEN 504 ELSE 500

\* handle_capture reached capture_image(resolution, format) with a
\* directory of up to MaxFiles files.
InitCapture ==
    /\ InitProtocol(0, 1)
    /\ \E d \in Directories(MaxFiles) :
          job = [op |-> "capture_image", pc |-> "ensure_capture_dir", files |-> d,
                 outcome |-> "", file |-> FALSE, status |-> 0, events |-> <<>>]

\* ensure_capture_dir: os.makedirs succeeds and cleanup_old_files is called,
\* or it raises and the exception is raised again, out of capture_image.
EnsureCaptureDir(ok) ==
    /\ job.op = "capture_image"
    /\ job.pc = "ensure_capture_dir"
    /\ job' = IF ok THEN [job EXCEPT !.pc = "while"]
              ELSE [job EXCEPT !.pc = "raised", !.outcome = "makedirs"]
    /\ UNCHANGED protocol

\* cleanup_old_files: while get_directory_size_mb(CAPTURE_DIR) >
\* STORAGE_LIMIT_MB.  get_directory_size_mb returns 0 when os.walk or
\* getsize raises (sized = FALSE).
CleanupTest(sized) ==
    /\ job.op = "capture_image"
    /\ job.pc = "while"
    /\ job' = IF sized /\ get_directory_size_mb(job.files) > STORAGE_LIMIT_MB
              THEN [job EXCEPT !.pc = "glob"]
              ELSE [job EXCEPT !.pc = "run"]
    /\ UNCHANGED protocol

\* cleanup_old_files, the body of the loop: the oldest *.raw file is
\* removed if there is one; os.remove raising ends the loop (except
\* Exception); with no *.raw file the body does nothing.
CleanupBody(ok) ==
    /\ job.op = "capture_image"
    /\ job.pc = "glob"
    /\ job' = IF RawFiles(job.files) = {} THEN [job EXCEPT !.pc = "while"]
              ELSE IF ok
              THEN [job EXCEPT !.pc = "while", !.files = Remove(@, Min(RawFiles(@)))]
              ELSE [job EXCEPT !.pc = "run"]
    /\ UNCHANGED protocol

\* capture_image, the try block: subprocess.run returns 0 and the file is
\* there ("ok"), returns 0 and os.path.getsize raises ("nofile"), returns
\* another code ("failed") or raises TimeoutExpired ("timeout"); the command
\* may have written the file before it failed.
RunCapture(outcome, written) ==
    /\ job.op = "capture_image"
    /\ job.pc = "run"
    /\ outcome = "ok" => written
    /\ outcome = "nofile" => ~written
    /\ job' = IF outcome = "ok"
              THEN [job EXCEPT !.pc = "returned", !.outcome = outcome, !.file = TRUE]
              ELSE [job EXCEPT !.pc = "raised", !.outcome = outcome,
                               !.file = FileAfterFailure(written),
                               !.status = StatusCode(outcome)]
    /\ UNCHANGED protocol

\* handle_capture, except Exception: emits capture_error.
EmitCaptureError ==
    /\ job.op = "capture_image"
    /\ job.pc = "raised"
    /\ job' = [job EXCEPT !.pc = "error", !.events = Append(@, "capture_error")]
    /\ UNCHANGED protocol

\* handle_capture: send_image(sid, file_info) emits image_metadata first.
EmitMetadata ==
    /\ job.op = "capture_image"
    /\ job.pc = "returned"
    /\ job' = [job EXCEPT !.pc = "sending", !.events = Append(@, "image_metadata")]
    /\ UNCHANGED protocol

NextCapture ==
    \/ \E ok \in BOOLEAN : EnsureCaptureDir(ok)
    \/ \E sized \in BOOLEAN : CleanupTest(sized)
    \/ \E ok \in BOOLEAN : CleanupBody(ok)
    \/ \E outcome \in {"ok", "nofile", "failed", "timeout"}, written \in BOOLEAN :
          RunCapture(outcome, written)
    \/ EmitCaptureError
    \/ EmitMetadata

SpecCapture == InitCapture /\ [][NextCapture]_vars
\* The handler is scheduled until it ends.
SpecCaptureFair == SpecCapture /\ WF_vars(NextCapture)

\* ------------------------- streaming client: the shared batch timestamp
\* src/client/get_images-fast.py: current_batch_timestamp = None
None == 0

\* get_batch_timestamp(): the current timestamp, created from
\* datetime.now() if there is none.
get_batch_timestamp(current, clock) == IF current = None THEN clock ELSE current

\* save_image: reset_batch_timestamp() is called where node_id == "node_4".
ResetsTimestamp(n) == n = ConfiguredNodes

\* The four receive_images tasks before their first image_complete, at
\* second 1.  files[n][r] is the timestamp in the name of the file node n
\* saved for its r-th image_complete, None where save_image raised.
InitBatch ==
    /\ InitProtocol(0, 1)
    /\ job = [op |-> "save_image", clock |-> 1, current_batch_timestamp |-> None,
              files |-> [n \in 1..ConfiguredNodes |-> <<>>]]

\* on_image_complete of node n calls save_image: the timestamp is taken
\* first; the image is written and, for node_4, the timestamp reset, or
\* writing or decoding raises before that.
SaveImage(n, saved) ==
    /\ job.op = "save_image"
    /\ Len(job.files[n]) < MaxRounds
    /\ LET ts == get_batch_timestamp(job.current_batch_timestamp, job.clock) IN
       job' = [job EXCEPT !.files[n] = Append(@, IF saved THEN ts ELSE None),
                          !.current_batch_timestamp =
                              IF saved /\ ResetsTimestamp(n) THEN None ELSE ts]
    /\ UNCHANGED protocol

\* A second passes.
BatchTick ==
    /\ job.op = "save_image"
    /\ job.clock <= MaxClock
    /\ job' = [job EXCEPT !.clock = @ + 1]
    /\ UNCHANGED protocol

NextBatch ==
    \/ \E n \in 1..ConfiguredNodes, saved \in BOOLEAN : SaveImage(n, saved)
    \/ BatchTick

SpecBatch == InitBatch /\ [][NextBatch]_vars

\* -------------------------------- the clients that request in a loop
\* receive_images of src/client/get_images-fast.py ("streaming") and of
\* src/testing/get_images.py ("grouped"), one task per configured node.
\* Per node: connected; request, a capture request is emitted and no
\* image_complete or capture_error has answered it; metadata, the task
\* holds metadata and start_time.  capture_group is the shared list of the
\* grouped client, as the nodes that appended to it; tested[n] the
\* capture_group node n found when it last requested its next capture from
\* on_image_complete, asked[n] whether it has done so.
ClientKinds == {"streaming", "grouped"}

InitReceive ==
    /\ InitProtocol(0, 1)
    /\ \E kind \in ClientKinds :
          job = [op |-> "receive_images", kind |-> kind,
                 connected |-> [n \in 1..ConfiguredNodes |-> FALSE],
                 request |-> [n \in 1..ConfiguredNodes |-> FALSE],
                 metadata |-> [n \in 1..ConfiguredNodes |-> FALSE],
                 capture_group |-> {},
                 asked |-> [n \in 1..ConfiguredNodes |-> FALSE],
                 tested |-> [n \in 1..ConfiguredNodes |-> {}]]

\* connect(): sio.emit('capture', ...)
OnConnect(n) ==
    /\ job.op = "receive_images"
    /\ ~job.connected[n]
    /\ job' = [job EXCEPT !.connected[n] = TRUE, !.request[n] = TRUE]
    /\ UNCHANGED protocol

\* on_image_metadata: metadata = data, start_time = time.time()
OnImageMetadata(n) ==
    /\ job.op = "receive_images"
    /\ job.request[n]
    /\ job' = [job EXCEPT !.metadata[n] = TRUE]
    /\ UNCHANGED protocol

\* The capture_group for which the grouped client requests the next
\* capture: len(set(capture_group)) >= 1.
GroupComplete(group) == Cardinality(group) >= 1

\* on_image_complete of the streaming client: with metadata the image is
\* saved or save_image raises and the exception is caught, the metadata is
\* dropped and the next capture requested; without metadata a warning is
\* logged.
StreamingComplete(n) ==
    /\ job.op = "receive_images"
    /\ job.kind = "streaming"
    /\ job.request[n]
    /\ job' = IF job.metadata[n]
              THEN [job EXCEPT !.metadata[n] = FALSE, !.request[n] = TRUE]
              ELSE [job EXCEPT !.request[n] = FALSE]
    /\ UNCHANGED protocol

\* on_image_complete of the grouped client: with metadata the data is
\* processed and the directory appended to capture_group; the next capture
\* is requested if the group passes the test, and the group is cleared.
\* Where process_and_save raises, save_dir is unbound and building the CSV
\* row raises UnboundLocalError out of the handler.  Without metadata a
\* warning is logged.
GroupedComplete(n, saved) ==
    /\ job.op = "receive_images"
    /\ job.kind = "grouped"
    /\ job.request[n]
    /\ job' = IF job.metadata[n] /\ saved
              THEN LET group == job.capture_group \cup {n} IN
                   IF GroupComplete(group)
                   THEN [job EXCEPT !.metadata[n] = FALSE, !.request[n] = TRUE,
                                    !.capture_group = {},
                                    !.asked[n] = TRUE, !.tested[n] = group]
                   ELSE [job EXCEPT !.metadata[n] = FALSE, !.request[n] = FALSE,
                                    !.capture_group = group]
              ELSE [job EXCEPT !.request[n] = FALSE]
    /\ UNCHANGED protocol

\* on_capture_error: sio.emit('capture', ...), in the grouped client after
\* asyncio.sleep(1).
OnCaptureError(n) ==
    /\ job.op = "receive_images"
    /\ job.request[n]
    /\ job' = [job EXCEPT !.request[n] = TRUE]
    /\ UNCHANGED protocol

NextReceive ==
    \/ \E n \in 1..ConfiguredNodes : OnConnect(n)
    \/ \E n \in 1..ConfiguredNodes : OnImageMetadata(n)
    \/ \E n \in 1..ConfiguredNodes : StreamingComplete(n)
    \/ \E n \in 1..ConfiguredNodes, saved \in BOOLEAN : GroupedComplete(n, saved)
    \/ \E n \in 1..ConfiguredNodes : OnCaptureError(n)

\* Every handler whose event has arrived runs.
SpecReceive == InitReceive /\ [][NextReceive]_vars /\ WF_vars(NextReceive)

\* ------------------------------------------- backend: get_image_sets
\* File names are strings, as sequences of characters.
\* f"image_{timestamp}_{node_id}.jpg"
ImageFilename(ts, node_id) ==
    <<"i", "m", "a", "g", "e", "_">> \o ts \o <<"_">> \o node_id \o <<".", "j", "p", "g">>

\* str.endswith
EndsWith(s, suffix) ==
    Len(s) >= Len(suffix) /\ SubSeq(s, Len(s) - Len(suffix) + 1, Len(s)) = suffix

\* str.split(sep) for a separator of one character: the pieces between the
\* separators, in order.
RECURSIVE Split(_, _)
Split(s, sep) ==
    IF \A i \in 1..Len(s) : s[i] # sep THEN <<s>>
    ELSE LET k == Min({i \in 1..Len(s) : s[i] = sep})
         IN <<SubSeq(s, 1, k - 1)>> \o Split(SubSeq(s, k + 1, Len(s)), sep)

\* get_image_sets, for one name of os.listdir: nothing for a name that is
\* skipped, else the timestamp and the node_id parsed from the name.
ParseFilename(filename) ==
    LET parts == Split(filename, "_") IN
    IF /\ StartsWith(filename, <<"i", "m", "a", "g", "e", "_">>)
       /\ EndsWith(filename, <<".", "j", "p", "g">>)
       /\ Len(parts) >= 4
    THEN {[timestamp |-> parts[2] \o <<"_">> \o parts[3],
           node_id |-> Split(parts[4], ".")[1],
           filename |-> filename]}
    ELSE {}

\* get_image_sets: the images of all sets, each with the timestamp of its
\* set.
get_image_sets(files) == UNION {ParseFilename(f) : f \in files}

\* datetime.now().strftime("%Y%m%d_%H%M%S") at three seconds.
Timestamps ==
    {<<"2", "0", "2", "6", "1", "1", "0", "3", "_", "1", "2", "0", "0", "0">> \o <<s>> :
        s \in {"0", "1", "2"}}
\* The node ids main.py configures.
NodeNames == {<<"n", "o", "d", "e", "_", k>> : k \in {"1", "2", "3", "4"}}

\* An empty image directory.  written: what capture_from_node wrote, as
\* timestamp, node id and file name; listed: the result of the last
\* get_image_sets call, while no file was written since.
InitGallery ==
    /\ InitProtocol(0, 1)
    /\ job = [op |-> "get_image_sets", written |-> {}, listed |-> FALSE, sets |-> {}]

\* capture_from_node saves the image of a node under a timestamp.
WriteImage(ts, node_id) ==
    /\ job.op = "get_image_sets"
    /\ Cardinality(job.written) < MaxFiles
    /\ job' = [job EXCEPT !.written = @ \cup {[timestamp |-> ts, node_id |-> node_id,
                                               filename |-> ImageFilename(ts, node_id)]},
                          !.listed = FALSE, !.sets = {}]
    /\ UNCHANGED protocol

\* GET /api/gallery
GetImageSets ==
    /\ job.op = "get_image_sets"
    /\ ~job.listed
    /\ job' = [job EXCEPT !.listed = TRUE,
                          !.sets = get_image_sets({w.filename : w \in job.written})]
    /\ UNCHANGED protocol

NextGallery ==
    \/ \E ts \in Timestamps, node_id \in NodeNames : WriteImage(ts, node_id)
    \/ GetImageSets

SpecGallery == InitGallery /\ [][NextGallery]_vars

\* --------------------------------------------- camera node: the preview
\* Threads: the event loop, which runs connect and disconnect, and one
\* reader thread per preview started, numbered like its subprocess.
EventLoop == 0
\* preview_lock when no thread holds it.
Unlocked == -1
Readers == 1..MaxPreviews

\* Variant: stop_preview drops the subprocess without ending it.
LeftRunning(alive, p) == alive
\* stop_preview: preview_process.terminate(); preview_process.wait(timeout=5)
Terminated(alive, p) == alive \ {p}

\* node_1 with no client: preview_process = None, preview_active = False,
\* the lock free.  pc[t] is where thread t is, alive the subprocesses
\* running, spawned the number started, clients the connected clients.
InitPreview ==
    /\ InitProtocol(0, 1)
    /\ job = [op |-> "preview", preview_process |-> None, preview_active |-> FALSE,
              preview_lock |-> Unlocked, alive |-> {}, spawned |-> 0, clients |-> 0,
              pc |-> [t \in {EventLoop} \cup Readers |->
                         IF t = EventLoop THEN "idle" ELSE "unborn"]]

\* connect(sid, environ): start_preview() is called.
Connect ==
    /\ job.op = "preview"
    /\ job.pc[EventLoop] = "idle"
    /\ job.clients < MaxClients
    /\ job.spawned < MaxPreviews
    /\ job' = [job EXCEPT !.clients = @ + 1, !.pc[EventLoop] = "start_preview"]
    /\ UNCHANGED protocol

\* start_preview: with preview_lock: if preview_active: return
StartPreview ==
    /\ job.op = "preview"
    /\ job.pc[EventLoop] = "start_preview"
    /\ job.preview_lock = Unlocked
    /\ job' = IF job.preview_active THEN [job EXCEPT !.pc[EventLoop] = "idle"]
              ELSE [job EXCEPT !.preview_lock = EventLoop, !.pc[EventLoop] = "Popen"]
    /\ UNCHANGED protocol

\* start_preview: preview_process = subprocess.Popen(...), or Popen raises
\* and the except clause sets preview_process = None, preview_active = False.
Popen(ok) ==
    /\ job.op = "preview"
    /\ job.pc[EventLoop] = "Popen"
    /\ job' = IF ok
              THEN [job EXCEPT !.preview_process = job.spawned + 1,
                               !.alive = @ \cup {job.spawned + 1},
                               !.spawned = @ + 1,
                               !.pc[EventLoop] = "activate"]
              ELSE [job EXCEPT !.alive = IF job.preview_process # None
                                         THEN Terminated(@, job.preview_process) ELSE @,
                               !.preview_process = None,
                               !.preview_active = FALSE,
                               !.preview_lock = Unlocked,
                               !.pc[EventLoop] = "idle"]
    /\ UNCHANGED protocol

\* start_preview: preview_active = True and the reader thread is started;
\* or Thread(...).start() raises and the except clause terminates the
\* subprocess.  The lock is released.
Activate(ok) ==
    /\ job.op = "preview"
    /\ job.pc[EventLoop] = "activate"
    /\ job' = IF ok
              THEN [job EXCEPT !.preview_active = TRUE,
                               !.pc[job.preview_process] = "loop",
                               !.preview_lock = Unlocked,
                               !.pc[EventLoop] = "idle"]
              ELSE [job EXCEPT !.alive = Terminated(@, job.preview_process),
                               !.preview_process = None,
                               !.preview_active = FALSE,
                               !.preview_lock = Unlocked,
                               !.pc[EventLoop] = "idle"]
    /\ UNCHANGED protocol

\* disconnect(sid): stop_preview() is called.
Disconnect ==
    /\ job.op = "preview"
    /\ job.pc[EventLoop] = "idle"
    /\ job.clients > 0
    /\ job' = [job EXCEPT !.clients = @ - 1, !.pc[EventLoop] = "stop_preview"]
    /\ UNCHANGED protocol

\* read_preview_frames: the loop ends, because preview_active or
\* preview_process is found false or because reading or emitting raises
\* (preview_process.stdout with preview_process = None, among others); the
\* finally clause calls stop_preview().
ReaderLeavesLoop(r) ==
    /\ job.op = "preview"
    /\ job.pc[r] = "loop"
    /\ job' = [job EXCEPT !.pc[r] = "stop_preview"]
    /\ UNCHANGED protocol

\* stop_preview: with preview_lock: preview_active = False
StopPreview(t) ==
    /\ job.op = "preview"
    /\ job.pc[t] = "stop_preview"
    /\ job.preview_lock = Unlocked
    /\ job' = [job EXCEPT !.preview_lock = t, !.preview_active = FALSE,
                          !.pc[t] = "terminate"]
    /\ UNCHANGED protocol

\* stop_preview: if preview_process: terminate it and wait for it;
\* finally preview_process = None.  The lock is released.
Terminate(t) ==
    /\ job.op = "preview"
    /\ job.pc[t] = "terminate"
    /\ job' = [job EXCEPT !.alive = IF job.preview_process # None
                                    THEN Terminated(@, job.preview_process) ELSE @,
                          !.preview_process = None,
                          !.preview_lock = Unlocked,
                          !.pc[t] = IF t = EventLoop THEN "idle" ELSE "exited"]
    /\ UNCHANGED protocol

NextPreview ==
    \/ Connect
    \/ StartPreview
    \/ \E ok \in BOOLEAN : Popen(ok)
    \/ \E ok \in BOOLEAN : Activate(ok)
    \/ Disconnect
    \/ \E r \in Readers : ReaderLeavesLoop(r)
    \/ \E t \in {EventLoop} \cup Readers : StopPreview(t)
    \/ \E t \in {EventLoop} \cup Readers : Terminate(t)

SpecPreview == InitPreview /\ [][NextPreview]_vars

\* ------------------------------------------------------------------ claims
\* C1: capture_all returns an ImageSet whatever subset of the sessions
\* failed, and an endpoint's image is in it if and only if that endpoint's
\* own session succeeded; each endpoint appears at most once.
C1_FailureIsolation ==
    \A c \in Calls :
        pc[c] = "returned" =>
            /\ Range(result[c]) = {n \in nodes : sess[c][n].phase = "ok"}
            /\ Len(result[c]) = Cardinality(Range(result[c]))

\* C1 witness: a returned call in which one endpoint failed and another one
\* delivered its image.
C1_Witness ==
    \E c \in Calls :
        /\ pc[c] = "returned"
        /\ \E n \in nodes : sess[c][n].phase = "failed"
        /\ \E n \in nodes : sess[c][n].phase = "ok" /\ n \in Range(result[c])

\* C2: with the four configured endpoints, endpoint 2 silent and the other
\* three delivering whole transfers, capture_all eventually returns with
\* exactly the images of endpoints 1, 3 and 4.
C2_SilentEndpointDoesNotHang ==
    <>(pc[1] = "returned" /\ result[1] = <<1, 3, 4>>)

\* C2 witness: the call has returned the three images after the silent
\* endpoint's metadata wait expired.
C2_Witness ==
    /\ pc[1] = "returned"
    /\ result[1] = <<1, 3, 4>>
    /\ sess[1][2].phase = "failed"
    /\ sess[1][2].reason = "metadata timeout"

\* C3 (as claimed): when capture_all calls follow one another without
\* overlapping, no session consumes a metadata, chunk or completion event
\* that the endpoint sent for an earlier cycle.
C3_NoCrossCycleLeak ==
    ~overlapped => \A c \in Calls, n \in nodes : ~sess[c][n].stale

\* C4 (as claimed): the assembled buffer never holds more bytes than the
\* metadata declared.
C4_BufferWithinSize ==
    \A c \in Calls, n \in nodes :
        sess[c][n].phase \in {"chunk", "complete"} => sess[c][n].len <= sess[c][n].size

\* C5 (as claimed): once the endpoint has answered a session's request with
\* capture_error, the session does not run its metadata wait to the timeout.
C5_ErrorShortCircuits ==
    [][\A c \in Calls, n \in nodes :
          (xfer[c][n].st = "error" /\ sess[c][n].phase = "meta")
              => sess'[c][n].reason # "metadata timeout"]_vars

\* C6 (as claimed): at most one in-flight session consumes an endpoint's
\* queues at any time.
C6_ExclusiveQueues ==
    \A n \in nodes : Cardinality({c \in Calls : sess[c][n].phase \in Waiting}) <= 1

\* C7 (as claimed): capture_all never issues a request on a connection that
\* is down without having tried, in that call, to establish it.
C7_ReconnectsBeforeRequest ==
    \A c \in Calls, n \in nodes :
        sess[c][n].reason = "not connected" => n \in tried[c]

\* C8 (as claimed): while capture_all waits for the connection attempt to
\* one endpoint, the request to every other endpoint has been issued or can
\* be issued.
C8_ConnectDoesNotBlockOthers ==
    \A c \in Calls :
        pc[c] = "connecting" =>
            \A m \in nodes \ {cur[c]} :
                sess[c][m].phase # "none" \/ ENABLED BeginCapture(c, m)

\* C9: once capture_all has created its tasks, the request of every session
\* that has not yet emitted it can be emitted, whatever the other sessions
\* are waiting for.
C9_ConcurrentStart ==
    \A c \in Calls, n \in nodes :
        (pc[c] = "gather" /\ sess[c][n].phase = "created") => ENABLED BeginCapture(c, n)

\* C9 witness: an endpoint with a lower index is still waiting for an event
\* that has not arrived while another session has not emitted its request.
C9_Witness ==
    \E c \in Calls, n \in nodes, m \in nodes :
        /\ m < n
        /\ sess[c][n].phase = "created"
        /\ sess[c][m].phase = "meta"
        /\ metadata_queues[m] = <<>>

\* C10: capture_all has not returned while a session it started is neither
\* succeeded nor failed.
C10_JoinWaitsForAll ==
    \A c \in Calls :
        pc[c] = "returned" => \A n \in nodes : sess[c][n].phase \in Terminal

\* C10 witness: a returned call one of whose sessions ran to the last wait
\* and timed out there while another session had failed at once.
C10_Witness ==
    \E c \in Calls, n \in nodes, m \in nodes :
        /\ pc[c] = "returned"
        /\ sess[c][n].reason = "completion timeout"
        /\ sess[c][m].reason = "not connected"

\* The exception each wait raises when it expires.
TimeoutReason ==
    [meta |-> "metadata timeout", chunk |-> "chunk timeout", complete |-> "completion timeout"]
\* The queue each wait reads.
WaitedQueue(ph, n) ==
    CASE ph = "meta" -> metadata_queues[n]
      [] ph = "chunk" -> chunk_queues[n]
      [] ph = "complete" -> complete_queues[n]

\* C11: a session fails with the reason of the wait it is in, and only
\* when that wait has run for the whole timeout with nothing in the queue it
\* waits on, counted from the moment the session last ran: the timer starts
\* afresh with every phase and every chunk. Checked under SpecTimed.
C11_PhaseTimeouts ==
    [][\A c \in Calls, n \in nodes :
          /\ (/\ sess[c][n].phase \in Waiting
              /\ sess'[c][n].phase = "failed"
              /\ sess'[c][n].reason # "save error")
             => /\ sess'[c][n].reason = TimeoutReason[sess[c][n].phase]
                /\ WaitedQueue(sess[c][n].phase, n) = <<>>
                /\ sess[c][n].idle = WAIT_TIMEOUT
                /\ sess[c][n].phase = "chunk" => sess[c][n].len < sess[c][n].size
          /\ (/\ sess'[c][n].phase \in Waiting
              /\ \/ sess'[c][n].phase # sess[c][n].phase
                 \/ sess'[c][n].len # sess[c][n].len)
             => sess'[c][n].t = 0]_vars
\* A session that ended with a chunk timeout although more time than one
\* timeout had passed since its request.
C11_Witness ==
    \E c \in Calls, n \in nodes :
        /\ sess[c][n].reason = "chunk timeout"
        /\ now > WAIT_TIMEOUT

\* C12: the phases of a session follow one another in the order request,
\* metadata, chunks, completion signal, success: the request is emitted on
\* entering the metadata wait, the completion wait is entered only with at
\* least metadata.size bytes buffered, success is reached only from the
\* completion wait, and a finished session (ok or failed) never moves again.
C12_PhaseOrder ==
    [][\A c \in Calls, n \in nodes :
          LET s == sess[c][n]  s2 == sess'[c][n] IN
          s2.phase # s.phase =>
              /\ s2.phase = "created" => s.phase = "none"
              /\ s2.phase = "meta" =>
                    s.phase = "created" /\ xfer'[c][n].reqs = xfer[c][n].reqs + 1
              /\ s2.phase = "chunk" => s.phase = "meta"
              /\ s2.phase = "complete" =>
                    s.phase \in {"meta", "chunk"} /\ s2.len >= s2.size
              /\ s2.phase = "ok" => s.phase = "complete"
              /\ s.phase \notin Terminal]_vars
\* A session that succeeded after a transfer of more than one chunk.
C12_Witness ==
    \E c \in Calls, n \in nodes :
        /\ sess[c][n].phase = "ok"
        /\ xfer[c][n].reqs = 1
        /\ xfer[c][n].st = "done"
        /\ xfer[c][n].size > CHUNK_SIZE

\* C13: once the buffer of a session holds metadata.size bytes, no step
\* changes its length or the size it compares with, however many chunks are
\* delivered to the endpoint's chunk queue meanwhile. Checked under SpecPair.
C13_ExtraChunksIgnored ==
    [][\A c \in Calls, n \in nodes :
          (/\ sess[c][n].phase \in {"chunk", "complete"}
           /\ sess[c][n].len >= sess[c][n].size
           /\ sess'[c][n].phase \in Waiting)
          => /\ sess'[c][n].len = sess[c][n].len
             /\ sess'[c][n].size = sess[c][n].size]_vars
\* A session with a full buffer while another chunk sits in the queue.
C13_Witness ==
    \E c \in Calls, n \in nodes :
        /\ sess[c][n].phase = "complete"
        /\ sess[c][n].len >= sess[c][n].size
        /\ chunk_queues[n] # <<>>

\* C14: the step in which capture_from_node emits its request leaves the
\* endpoint's three queues empty and the session with an empty buffer, so
\* nothing enqueued before that step can be read after it. Checked under
\* SpecPair.
C14_DrainBeforeRequest ==
    [][\A c \in Calls, n \in nodes :
          (sess[c][n].phase = "created" /\ sess'[c][n].phase # "created")
          => /\ metadata_queues'[n] = <<>>
             /\ chunk_queues'[n] = <<>>
             /\ complete_queues'[n] = <<>>
             /\ sess'[c][n].len = 0]_vars
\* Cycle 1 timed out before reading anything and its whole transfer was
\* enqueued afterwards; cycle 2 has emitted its request and faces empty
\* queues.
C14_Witness ==
    \E n \in nodes :
        /\ sess[1][n].reason = "metadata timeout"
        /\ xfer[1][n].st = "done"
        /\ sess[2][n].phase = "meta"
        /\ xfer[2][n].st = "req"
        /\ metadata_queues[n] = <<>>
        /\ chunk_queues[n] = <<>>
        /\ complete_queues[n] = <<>>

\* C15: the returned images are in configuration order (endpoints are
\* numbered in the order of the nodes mapping), each endpoint at most once.
C15_ConfigurationOrder ==
    \A c \in Calls :
        pc[c] = "returned" =>
            /\ \A i \in 1..Len(result[c]) : result[c][i] \in nodes
            /\ \A i, j \in 1..Len(result[c]) : i < j => result[c][i] < result[c][j]
\* A returned set with the images of two endpoints.
C15_Witness ==
    \E c \in Calls : pc[c] = "returned" /\ Len(result[c]) = 2

\* C16: capture_all returns an ImageSet only when at least one endpoint is
\* configured (with none it raises a configuration error).
C16_FatalWithoutEndpoints ==
    \A c \in Calls : pc[c] = "returned" => nodes # {}

\* C17, as the code has it: within one capture_all call every endpoint is
\* sent at most one capture request, exactly one when its session found the
\* client connected, none when it did not; a finished session has not
\* emitted again.
C17_AtMostOneRequest ==
    \A c \in Calls, n \in nodes :
        /\ xfer[c][n].reqs <= 1
        /\ sess[c][n].phase \in Waiting \cup {"ok"} => xfer[c][n].reqs = 1
        /\ (sess[c][n].phase = "failed" /\ sess[c][n].reason # "not connected")
              => xfer[c][n].reqs = 1
        /\ (sess[c][n].phase = "failed" /\ sess[c][n].reason = "not connected")
              => xfer[c][n].reqs = 0
\* A returned call with one session that timed out after its one request
\* and one that was never connected.
C17_Witness ==
    \E c \in Calls, n, m \in nodes :
        /\ pc[c] = "returned"
        /\ sess[c][n].reason = "metadata timeout" /\ xfer[c][n].reqs = 1
        /\ sess[c][m].reason = "not connected" /\ xfer[c][m].reqs = 0
\* C17 as stated: every endpoint of a returned call was sent exactly one
\* request.
C17_ExactlyOneRequest ==
    \A c \in Calls, n \in nodes :
        pc[c] = "returned" => xfer[c][n].reqs = 1

\* C18: when the caller cancels capture_all, every session that was not
\* yet finished ends as failed with the reason "cancelled". Checked under
\* SpecCancel.
C18_CancelledRecorded ==
    [][\A c \in Calls :
          (pc[c] # "cancelled" /\ pc'[c] = "cancelled") =>
              \A n \in nodes :
                  sess[c][n].phase \in Waiting \cup {"created"} =>
                      /\ sess'[c][n].phase = "failed"
                      /\ sess'[c][n].reason = "cancelled"]_vars

\* C19: every image of a returned set carries in its filename the
\* timestamp capture_all generated, which is the timestamp of the set.
\* Checked under SpecStamp.
C19_OneTimestamp ==
    \A c \in Calls :
        pc[c] = "returned" =>
            \A i \in 1..Len(result[c]) : sess[c][result[c][i]].stamp = timestamp[c]
\* A returned set of two images, saved when the clock had moved on since
\* the timestamp was generated.
C19_Witness ==
    \E c \in Calls :
        /\ pc[c] = "returned"
        /\ Len(result[c]) = 2
        /\ timestamp[c] > 0
        /\ now > timestamp[c]

\* C20: an image_chunk carries between 1 and CHUNK_SIZE bytes, and when
\* image_complete has been emitted for a transfer the chunks emitted for it
\* total the size its image_metadata announced.
C20_ChunksTotalSize ==
    [][\A c \in Calls, n \in nodes :
          /\ xfer'[c][n].sent # xfer[c][n].sent /\ xfer'[c][n].st = xfer[c][n].st
                => xfer'[c][n].sent - xfer[c][n].sent \in 1..CHUNK_SIZE
          /\ xfer'[c][n].st = "done" => xfer'[c][n].sent = xfer'[c][n].size]_vars
\* A finished transfer whose last chunk was shorter than CHUNK_SIZE.
C20_Witness ==
    \E c \in Calls, n \in nodes :
        /\ xfer[c][n].st = "done"
        /\ xfer[c][n].size > CHUNK_SIZE
        /\ xfer[c][n].size % CHUNK_SIZE # 0

\* C21: a capture request whose handler has ended was answered with
\* exactly one terminal event, image_complete or capture_error, whatever its
\* data; no request is ever answered with two, and image_complete follows
\* the last chunk. Checked under SpecNode.
C21_OneTerminalEvent ==
    \A c \in Calls, n \in nodes :
        /\ xfer[c][n].completes + xfer[c][n].errors <= 1
        /\ xfer[c][n].st \in {"done", "error", "raised"}
              => xfer[c][n].completes + xfer[c][n].errors = 1
        /\ xfer[c][n].completes = 1 => xfer[c][n].sent = xfer[c][n].size

\* C22: a transfer has exactly one image_metadata event, emitted before its
\* first image_chunk (and before its image_complete). Checked under
\* SpecNode.
C22_MetadataOnceFirst ==
    \A c \in Calls, n \in nodes :
        /\ xfer[c][n].metadata <= 1
        /\ (xfer[c][n].sent > 0 \/ xfer[c][n].completes > 0) => xfer[c][n].metadata = 1
\* A complete transfer of several chunks, requested with data that is no
\* dict, after the transfer of an earlier request.
C22_Witness ==
    \E n \in nodes :
        /\ xfer[1][n].st = "done"
        /\ xfer[2][n].st = "done"
        /\ ~xfer[2][n].data.dict
        /\ xfer[2][n].metadata = 1
        /\ xfer[2][n].sent > CHUNK_SIZE

\* C23: capture_error is emitted only for a request for which neither
\* image_metadata nor an image_chunk was emitted. Checked under SpecNode.
C23_ErrorInPlaceOfTransfer ==
    \A c \in Calls, n \in nodes :
        xfer[c][n].errors > 0 => (xfer[c][n].metadata = 0 /\ xfer[c][n].sent = 0)

\* C24: the four samples unpacked from a group b0..b4 are
\* (b0<<2 | b1>>6) & 0x3FF, (b1<<4 | b2>>4) & 0x3FF, (b2<<6 | b3>>2) & 0x3FF
\* and (b3<<8 | b4) & 0x3FF computed without loss of the shifted-out bits,
\* the full 10-bit values. Checked under SpecUnpack.
C24_FullTenBitSamples ==
    job.done =>
        LET b == job.row IN
        job.out.samples = <<(b[1] * 4 + b[2] \div 64) % 1024,
                            (b[2] * 16 + b[3] \div 16) % 1024,
                            (b[3] * 64 + b[4] \div 4) % 1024,
                            (b[4] * 256 + b[5]) % 1024>>

\* C25: unpacking is lossless: the unpacking of a group yields samples, and
\* no other group unpacks to the same four samples. Checked under
\* SpecUnpack.
C25_UnpackLossless ==
    job.done =>
        /\ job.out.err = ""
        /\ \A g \in Groups : g # job.row => UnpackRow(g, TRUE).samples # job.out.samples

\* C26: a processing call raises the size-mismatch error exactly when the
\* length of the input differs from ceil(camera_width * camera_height * 10 / 8),
\* and a call that raised nothing used every byte of its input.
C26_SizeMismatchIffWrongLength ==
    job.op \in {"process_raw_data", "process_and_save"} /\ job.done =>
        /\ job.out.err = "SizeMismatch" <=>
               job.len # Ceil(job.camera_width * job.camera_height * 10, 8)
        /\ job.out.err = "" => job.out.used = job.len

\* C27: a grid of 4x4 samples of node_1 with one of the four tilings is
\* demosaiced without an error to three channels of 2x2, the red and the
\* blue value of a tile being the samples at its red and blue cell and the
\* green value (g1 + g2) \div 2 of its two green cells.
C27_HalfResolutionDemosaic ==
    /\ job.op \in {"process_raw_data", "process_and_save"}
    /\ job.done
    /\ job.node_id = "node_1"
    /\ job.bayer_pattern \in {RGGB, BGGR, GRBG, GBRG}
    /\ job.out.raw # NoArray
    /\ job.out.raw.rows = 4
    /\ job.out.raw.cols = 4
    => /\ job.out.err = ""
       /\ Len(job.out.image) = 3
       /\ \A k \in 1..3 : job.out.image[k].rows = 2 /\ job.out.image[k].cols = 2
       /\ \A i \in 0..1, c \in 0..1 :
              LET cell(r, s) == job.out.raw.at[<<2 * i + r, 2 * c + s>>]
                  red == job.out.image[1].at[<<i, c>>]
                  green == job.out.image[2].at[<<i, c>>]
                  blue == job.out.image[3].at[<<i, c>>]
              IN CASE job.bayer_pattern = RGGB ->
                         /\ red = cell(0, 0)
                         /\ green = (cell(0, 1) + cell(1, 0)) \div 2
                         /\ blue = cell(1, 1)
                   [] job.bayer_pattern = BGGR ->
                         /\ blue = cell(0, 0)
                         /\ green = (cell(0, 1) + cell(1, 0)) \div 2
                         /\ red = cell(1, 1)
                   [] job.bayer_pattern = GRBG ->
                         /\ red = cell(0, 1)
                         /\ green = (cell(0, 0) + cell(1, 1)) \div 2
                         /\ blue = cell(1, 0)
                   [] job.bayer_pattern = GBRG ->
                         /\ blue = cell(0, 1)
                         /\ green = (cell(0, 0) + cell(1, 1)) \div 2
                         /\ red = cell(1, 0)

\* C28: the grid a processing call cuts out has the requested height and
\* width; it holds the sample of the camera's grid wherever the camera's grid
\* has one and 0 below and to the right of it.
C28_RequestedShape ==
    /\ job.op \in {"process_raw_data", "process_and_save"}
    /\ job.done
    /\ job.out.raw # NoArray
    => /\ job.out.raw.rows = job.height
       /\ job.out.raw.cols = job.width
       /\ \A i \in 0..(job.height - 1), c \in 0..(job.width - 1) :
              job.out.raw.at[<<i, c>>] =
                  IF i < job.camera_height /\ c < job.camera_width
                  THEN job.out.grid.at[<<i, c>>] ELSE 0

\* C29: a call for node_1 that got as far as the demosaicing raises the
\* unsupported-pattern error for every pattern that is not exactly RGGB,
\* BGGR, GRBG or GBRG, and does not raise it for those four.
C29_UnsupportedPatternExactly ==
    /\ job.op \in {"process_raw_data", "process_and_save"}
    /\ job.done
    /\ job.node_id = "node_1"
    /\ job.out.raw # NoArray
    => (job.out.err = "UnsupportedPattern" <=>
            job.bayer_pattern \notin {RGGB, BGGR, GRBG, GBRG})

\* C30: a call that saved an image of a transfer declaring one of the four
\* tilings saved three channels, whichever node sent it.
C30_ModeByPattern ==
    /\ job.op \in {"process_raw_data", "process_and_save"}
    /\ job.done
    /\ job.out.err = ""
    /\ job.bayer_pattern \in {RGGB, BGGR, GRBG, GBRG}
    => Len(job.out.image) = 3

\* C31: capture_image always gets past cleanup_old_files, whatever the
\* directory holds: it goes on to run the capture command or raises.
C31_CleanupTerminates ==
    <>(job.op = "capture_image" => job.pc \notin {"ensure_capture_dir", "while", "glob"})

\* C36: when the capture command failed or timed out, capture_image has
\* raised with no file at the capture path and with status 504 for the
\* timeout and 500 otherwise, and the handler emits capture_error alone
\* and no image_metadata.
C36_FailedCaptureLeavesNothing ==
    job.op = "capture_image" /\ job.outcome \in {"failed", "timeout"} =>
        /\ job.pc \in {"raised", "error"}
        /\ ~job.file
        /\ job.status = (IF job.outcome = "timeout" THEN 504 ELSE 500)
        /\ job.events = (IF job.pc = "error" THEN <<"capture_error">> ELSE <<>>)

C36_Witness ==
    /\ job.op = "capture_image"
    /\ job.outcome = "timeout"
    /\ job.pc = "error"
    /\ job.events = <<"capture_error">>

\* C35: every capture request the camera node has handled was run as a
\* capture: the handler did not end before capture_image, and the format of
\* the capture is one of SUPPORTED_FORMATS.
C35_CaptureWithSupportedValues ==
    \A c \in Calls, n \in nodes :
        xfer[c][n].st \notin {"none", "req"} =>
            /\ xfer[c][n].st # "raised"
            /\ xfer[c][n].metadata > 0 => xfer[c][n].format \in SUPPORTED_FORMATS

\* C32: a session never adds to its buffer a chunk that arrived while it
\* had requested its capture and the metadata of that capture had not been
\* sent.
C32_EarlyChunkDiscarded ==
    [][\A c \in Calls, n \in nodes :
          (/\ sess[c][n].phase = "chunk"
           /\ chunk_queues[n] # <<>>
           /\ chunk_queues'[n] = Tail(chunk_queues[n])
           /\ sess'[c][n].len > sess[c][n].len)
          => c \notin Head(chunk_queues[n]).before]_vars

\* C33: the files the nodes saved for one round carry one timestamp, and
\* the files of two consecutive rounds carry different timestamps.
C33_OneTimestampPerRound ==
    job.op = "save_image" =>
        \A n \in 1..ConfiguredNodes, m \in 1..ConfiguredNodes :
            /\ \A r \in 1..MaxRounds :
                  (/\ Len(job.files[n]) >= r
                   /\ Len(job.files[m]) >= r
                   /\ job.files[n][r] # None
                   /\ job.files[m][r] # None)
                  => job.files[n][r] = job.files[m][r]
            /\ \A r \in 1..(MaxRounds - 1) :
                  (/\ Len(job.files[n]) >= r
                   /\ Len(job.files[m]) >= r + 1
                   /\ job.files[n][r] # None
                   /\ job.files[m][r + 1] # None)
                  => job.files[n][r] # job.files[m][r + 1]

\* C34: when a node of the grouped client requested its next capture from
\* on_image_complete, capture_group held a result of every configured node.
C34_NextAfterFullGroup ==
    job.op = "receive_images" =>
        \A n \in 1..ConfiguredNodes :
            job.asked[n] => job.tested[n] = 1..ConfiguredNodes

\* C37: a connected client whose request has been answered by
\* image_complete or capture_error emits a new capture request.
C37_NeverStalls ==
    \A n \in 1..ConfiguredNodes :
        (job.op = "receive_images" /\ job.connected[n] /\ ~job.request[n]) ~>
            (job.op = "receive_images" /\ job.request[n])

\* C38: two capture_all invocations that both saved the image of a node
\* saved it under different timestamps, hence under different final paths
\* image_<timestamp>_<node>.jpg and temporary paths.
C38_DistinctPaths ==
    \A c \in Calls, d \in Calls, n \in nodes :
        (c # d /\ sess[c][n].phase = "ok" /\ sess[d][n].phase = "ok")
            => sess[c][n].stamp # sess[d][n].stamp

\* C39: the listing holds every file capture_from_node wrote, with the
\* timestamp and the node id it was written for.
C39_ListingRoundTrip ==
    job.op = "get_image_sets" /\ job.listed => job.written \subseteq job.sets

====
